---- MODULE Spec2Model ----
(***************************************************************************)
(* The `sure!` macro of src/src/lib.rs: six macro_rules arms, tried in     *)
(* order on the invocation's token sequence.  Arm 1 emits a two-arm        *)
(* `match`; arms 2..6 emit another `sure!` invocation (arms 5 and 6 inside *)
(* a `let` statement), which the compiler dispatches again.  The emitted   *)
(* match is then run on a value of the target.                             *)
(***************************************************************************)
EXTENDS Integers, Sequences, FiniteSets, TLC

\* Bounds of the run-time values the target may hold.
MaxElem == 2
MaxSliceLen == 3
\* Cap on the length of a delegation chain (the compiler's recursion limit,
\* which is far larger, plays this part in a build).
MaxDepth == 8

(***************************************************************************)
(* Tokens.  A token is punctuation / a keyword, a fragment of caller       *)
(* source, or the panic!(..) call arm 2 writes.  `args` are the panic      *)
(* call's format arguments: a literal (the result of stringify!, nothing   *)
(* is evaluated) or an expression that is evaluated when the call runs.    *)
(***************************************************************************)
Punct(s) == [k |-> "punct", s |-> s, args |-> <<>>]
Src(s) == [k |-> "src", s |-> s, args |-> <<>>]
NoFrag == [k |-> "none", s |-> "", args |-> <<>>]

Lit(s) == [lit |-> TRUE, s |-> s]
Evaluated(s) == [lit |-> FALSE, s |-> s]

\* stringify!(fragment): the fragment's source text as a string literal.
Stringify(frag) == Lit(frag.s)

\* Caller fragments, from the shapes the documentation uses.
TargetTexts == {"opt", "vec[..]"}
PatTexts == {"Some(n)", "[a, b]", "w"}
ResultTexts == {"n", "a", "0", "[a, b]", "w"}
FallbackTexts == {"0", "-1", "[0, 0]", "None", "return Err(e)"}
ExprTexts == TargetTexts \cup ResultTexts \cup FallbackTexts \cup {"Some(n)"}
\* Fragments that are one token tree: an identifier, a literal, one bracketed group.
SingleTreeTexts == {"opt", "[a, b]", "w", "n", "a", "0", "[0, 0]", "None"}

\* The fragment specifiers of the macro's matchers.
IsExpr(x) == x.k = "panic" \/ (x.k = "src" /\ x.s \in ExprTexts)
IsPat(x) == x.k = "src" /\ x.s \in PatTexts
IsTT(x) == x.k = "punct" \/ (x.k = "src" /\ x.s \in SingleTreeTexts)
IsPunct(x, s) == x.k = "punct" /\ x.s = s

(***************************************************************************)
(* The matchers of the six arms.  A matcher must consume the whole         *)
(* invocation.                                                             *)
(***************************************************************************)
Matches1(toks) ==
    /\ Len(toks) = 7
    /\ IsExpr(toks[1]) /\ IsPunct(toks[2], ",") /\ IsPat(toks[3])
    /\ IsPunct(toks[4], "=>") /\ IsExpr(toks[5])
    /\ IsPunct(toks[6], ";") /\ IsExpr(toks[7])

Matches2(toks) ==
    /\ Len(toks) = 5
    /\ IsExpr(toks[1]) /\ IsPunct(toks[2], ",") /\ IsPat(toks[3])
    /\ IsPunct(toks[4], "=>") /\ IsExpr(toks[5])

Matches3(toks) ==
    /\ Len(toks) = 5
    /\ IsExpr(toks[1]) /\ IsPunct(toks[2], ",") /\ IsTT(toks[3])
    /\ IsPunct(toks[4], ";") /\ IsExpr(toks[5])

Matches4Prefix(toks) ==
    /\ Len(toks) >= 3
    /\ IsExpr(toks[1]) /\ IsPunct(toks[2], ",") /\ IsTT(toks[3])

Matches4(toks) ==
    /\ Len(toks) = 3
    /\ IsExpr(toks[1]) /\ IsPunct(toks[2], ",") /\ IsTT(toks[3])

Matches5(toks) ==
    /\ Len(toks) = 6
    /\ IsPunct(toks[1], "let") /\ IsTT(toks[2]) /\ IsPunct(toks[3], "=")
    /\ IsExpr(toks[4]) /\ IsPunct(toks[5], ";") /\ IsExpr(toks[6])

Matches6(toks) ==
    /\ Len(toks) = 4
    /\ IsPunct(toks[1], "let") /\ IsTT(toks[2]) /\ IsPunct(toks[3], "=")
    /\ IsExpr(toks[4])

Matches(k, toks) ==
    CASE k = 1 -> Matches1(toks)
      [] k = 2 -> Matches2(toks)
      [] k = 3 -> Matches3(toks)
      [] k = 4 -> Matches4(toks)
      [] k = 5 -> Matches5(toks)
      [] k = 6 -> Matches6(toks)

MatchSet(toks) == {k \in 1..6 : Matches(k, toks)}

\* macro_rules dispatch: the first arm, in declared order, whose matcher
\* matches; 0 when none does (a compile error).
Dispatch(toks) ==
    IF MatchSet(toks) = {} THEN 0
    ELSE CHOOSE k \in MatchSet(toks) : \A j \in MatchSet(toks) : k <= j

(***************************************************************************)
(* The transcribers of the six arms.                                       *)
(***************************************************************************)
NoMatch == [target |-> NoFrag, pat |-> NoFrag, res |-> NoFrag, else |-> NoFrag]

Template1Swapped(toks) ==
    [target |-> toks[1], pat |-> toks[3], res |-> toks[7], else |-> toks[5]]

Template1NoWild(toks) ==
    [target |-> toks[1], pat |-> toks[3], res |-> toks[5], else |-> toks[5]]

\* match $target { $p => $res, _ => $else }
Template1(toks) ==
    [target |-> toks[1], pat |-> toks[3], res |-> toks[5], else |-> toks[7]]

DefaultFallbackSwapped(target, p) ==
    [k |-> "panic", s |-> "Expected {} to match pattern: {}",
     args |-> <<Stringify(p), Stringify(target)>>]

\* panic!("Expected {} to match pattern: {}", stringify!($target), stringify!($p))
DefaultFallback(target, p) ==
    [k |-> "panic", s |-> "Expected {} to match pattern: {}",
     args |-> <<Stringify(target), Stringify(p)>>]

Template2Debug(toks) ==
    <<toks[1], Punct(","), toks[3], Punct("=>"), toks[5], Punct(";"),
      [k |-> "panic", s |-> "Expected {} to match pattern: {}",
       args |-> <<Evaluated(toks[1].s), Stringify(toks[3])>>]>>

\* sure!($target, $p => $res; panic!(..))
Template2(toks) ==
    <<toks[1], Punct(","), toks[3], Punct("=>"), toks[5], Punct(";"),
      DefaultFallback(toks[1], toks[3])>>

\* sure!($target, $pat => $pat; $else)
Template3(toks) ==
    <<toks[1], Punct(","), toks[3], Punct("=>"), toks[3], Punct(";"), toks[5]>>

Template4Target(toks) ==
    <<toks[1], Punct(","), toks[3], Punct("=>"), toks[1]>>

Template4Loop(toks) ==
    <<toks[1], Punct(","), toks[3]>>

Template4Semicolon(toks) ==
    <<toks[1], Punct(","), toks[3], Punct(";"), toks[3]>>

\* sure!($target, $pat => $pat)
Template4(toks) ==
    <<toks[1], Punct(","), toks[3], Punct("=>"), toks[3]>>

Template5NoElse(toks) ==
    <<toks[4], Punct(","), toks[2]>>

\* let $pat = sure!($target, $pat; $else);  -- the inner invocation
Template5(toks) ==
    <<toks[4], Punct(","), toks[2], Punct(";"), toks[6]>>

Template6Swapped(toks) ==
    <<toks[2], Punct(","), toks[4]>>

\* let $pat = sure!($target, $pat);  -- the inner invocation
Template6(toks) ==
    <<toks[4], Punct(","), toks[2]>>

\* The left side of the let statement arms 5 and 6 write.
LetPattern(toks) == toks[2]

\* The full expansion of an expression-form invocation (arms 1..4): dispatch,
\* transcribe, dispatch again, until arm 1 emits the match.
RECURSIVE ExpandExpr(_, _)
ExpandExpr(toks, fuel) ==
    LET k == Dispatch(toks) IN
    IF k = 1 THEN Template1(toks)
    ELSE IF fuel = 0 \/ k \notin {2, 3, 4} THEN NoMatch
    ELSE ExpandExpr(CASE k = 2 -> Template2(toks)
                      [] k = 3 -> Template3(toks)
                      [] k = 4 -> Template4(toks), fuel - 1)

(***************************************************************************)
(* Run-time values and the semantics of the emitted match.                 *)
(***************************************************************************)
IntV(i) == [tag |-> "int", items |-> <<i>>]
SomeV(i) == [tag |-> "some", items |-> <<i>>]
NoneV == [tag |-> "none", items |-> <<>>]
ArrV(s) == [tag |-> "arr", items |-> s]
Unbound == [tag |-> "unbound", items |-> <<>>]

Slices == UNION {[1..n -> 1..MaxElem] : n \in 1..MaxSliceLen}
TargetValues(t) ==
    IF t = "opt" THEN {NoneV} \cup {SomeV(i) : i \in 1..MaxElem}
    ELSE {ArrV(s) : s \in Slices}

Names == {"n", "a", "b", "w"}
NoLocals == [x \in Names |-> Unbound]

\* Whether value v matches pattern fragment p.
PatMatches(p, v) ==
    CASE p.s = "Some(n)" -> v.tag = "some"
      [] p.s = "[a, b]" -> v.tag = "arr" /\ Len(v.items) = 2
      [] p.s = "w" -> TRUE
      [] OTHER -> FALSE

\* The names pattern p binds when v matches it.
Bind(p, v) ==
    IF ~PatMatches(p, v) THEN NoLocals
    ELSE CASE p.s = "Some(n)" -> [NoLocals EXCEPT !["n"] = IntV(v.items[1])]
           [] p.s = "[a, b]" -> [NoLocals EXCEPT !["a"] = IntV(v.items[1]),
                                                 !["b"] = IntV(v.items[2])]
           [] p.s = "w" -> [NoLocals EXCEPT !["w"] = v]

Value(v) == [kind |-> "value", v |-> v, msg |-> <<>>]
NoOutcome == [kind |-> "none", v |-> Unbound, msg |-> <<>>]

\* A format argument as it is shown: a literal is its text, an evaluated
\* argument is whatever the value prints as.
Render(arg) == IF arg.lit THEN arg.s ELSE "<value>"

\* "Expected {} to match pattern: {}" with its two arguments filled in.
FormatMsg(args) ==
    <<"Expected ", Render(args[1]), " to match pattern: ", Render(args[2])>>

\* How many times running fragment e evaluates the target.
ArgEvals(e) == Cardinality({i \in DOMAIN e.args : ~e.args[i].lit})

\* The outcome of running expression fragment e under the bindings `loc`.
EvalExpr(e, loc) ==
    IF e.k = "panic" THEN [kind |-> "panic", v |-> Unbound, msg |-> FormatMsg(e.args)]
    ELSE CASE e.s = "n" -> Value(loc["n"])
           [] e.s = "a" -> Value(loc["a"])
           [] e.s = "w" -> Value(loc["w"])
           [] e.s = "[a, b]" ->
                IF loc["a"] = Unbound \/ loc["b"] = Unbound THEN Value(Unbound)
                ELSE Value(ArrV(<<loc["a"].items[1], loc["b"].items[1]>>))
           [] e.s = "0" -> Value(IntV(0))
           [] e.s = "-1" -> Value(IntV(-1))
           [] e.s = "[0, 0]" -> Value(ArrV(<<0, 0>>))
           [] e.s = "None" -> Value(NoneV)
           [] e.s = "return Err(e)" -> [kind |-> "return", v |-> Unbound, msg |-> <<>>]
           [] OTHER -> Value(Unbound)

\* match v { p => r, _ => f } written by hand.
HandMatch(v, p, r, f) ==
    IF PatMatches(p, v) THEN EvalExpr(r, Bind(p, v)) ELSE EvalExpr(f, NoLocals)

(***************************************************************************)
(* The invocations a caller writes.                                        *)
(***************************************************************************)
TypeOf(e) ==
    CASE e \in {"n", "a", "0", "-1"} -> "int"
      [] e \in {"[a, b]", "[0, 0]"} -> "arr"
      [] e \in {"w", "None", "Some(n)"} -> "opt"
      [] OTHER -> "never"

PatsFor(t) == IF t = "opt" THEN {"Some(n)", "w"} ELSE {"[a, b]"}
ResultsFor(p) ==
    CASE p = "Some(n)" -> {"n", "0"}
      [] p = "[a, b]" -> {"[a, b]", "a", "0"}
      [] p = "w" -> {"w", "0"}
FallbacksFor(r) == {f \in FallbackTexts : TypeOf(f) \in {TypeOf(r), "never"}}

GoodForms == {"R1", "R2", "R3", "R4", "R5", "R6"}
BadForms == {"target only", "no comma", "no result", "extra fallback",
             "self-matching, several trees", "self-matching with fallback, several trees",
             "let, several trees", "let with result", "let without target"}

ShapeOf(form) ==
    CASE form = "R1" -> 1 [] form = "R2" -> 2 [] form = "R3" -> 3
      [] form = "R4" -> 4 [] form = "R5" -> 5 [] form = "R6" -> 6
      [] OTHER -> 0

Full == {[form |-> "R1", t |-> t, p |-> p, r |-> r, f |-> f] :
            t \in TargetTexts, p \in PatTexts, r \in ResultTexts, f \in FallbackTexts}

Invocations ==
    LET typed == {i \in Full : /\ i.p \in PatsFor(i.t)
                               /\ i.r \in ResultsFor(i.p)
                               /\ i.f \in FallbacksFor(i.r)}
        selfTyped == {i \in typed : i.p \in SingleTreeTexts /\ i.r = i.p}
        several == {i \in typed : i.p \notin SingleTreeTexts}
    IN  typed
        \cup {[i EXCEPT !.form = "R2", !.f = ""] : i \in typed}
        \cup {[i EXCEPT !.form = "R3", !.r = ""] : i \in selfTyped}
        \cup {[i EXCEPT !.form = "R4", !.r = "", !.f = ""] : i \in selfTyped}
        \cup {[i EXCEPT !.form = "R5", !.r = ""] : i \in selfTyped}
        \cup {[i EXCEPT !.form = "R6", !.r = "", !.f = ""] : i \in selfTyped}
        \cup {[i EXCEPT !.form = b] :
                i \in typed, b \in {"target only", "no comma", "no result",
                                    "extra fallback", "let with result",
                                    "let without target"}}
        \cup {[i EXCEPT !.form = b] :
                i \in several, b \in {"self-matching, several trees",
                                      "self-matching with fallback, several trees",
                                      "let, several trees"}}

\* The token sequence of invocation i, as the caller writes it.
Build(i) ==
    LET t == Src(i.t)  p == Src(i.p)  r == Src(i.r)  f == Src(i.f) IN
    CASE i.form = "R1" -> <<t, Punct(","), p, Punct("=>"), r, Punct(";"), f>>
      [] i.form = "R2" -> <<t, Punct(","), p, Punct("=>"), r>>
      [] i.form = "R3" -> <<t, Punct(","), p, Punct(";"), f>>
      [] i.form = "R4" -> <<t, Punct(","), p>>
      [] i.form = "R5" -> <<Punct("let"), p, Punct("="), t, Punct(";"), f>>
      [] i.form = "R6" -> <<Punct("let"), p, Punct("="), t>>
      [] i.form = "target only" -> <<t>>
      [] i.form = "no comma" -> <<t, p>>
      [] i.form = "no result" -> <<t, Punct(","), p, Punct("=>")>>
      [] i.form = "extra fallback" ->
            <<t, Punct(","), p, Punct("=>"), r, Punct(";"), f, Punct(";"), f>>
      [] i.form = "self-matching, several trees" -> <<t, Punct(","), p>>
      [] i.form = "self-matching with fallback, several trees" ->
            <<t, Punct(","), p, Punct(";"), f>>
      [] i.form = "let, several trees" -> <<Punct("let"), p, Punct("="), t>>
      [] i.form = "let with result" ->
            <<Punct("let"), p, Punct("="), t, Punct("=>"), r>>
      [] i.form = "let without target" -> <<Punct("let"), p, Punct("=")>>

(***************************************************************************)
(* The state: the invocation being expanded, then the emitted code running.*)
(***************************************************************************)
VARIABLES origin, env, pending, letPat, expansion, fired, pc,
          scrut, evals, armsRun, locals, outcome, scope

vars == <<origin, env, pending, letPat, expansion, fired, pc,
          scrut, evals, armsRun, locals, outcome, scope>>

Init ==
    /\ origin \in Invocations
    /\ env \in TargetValues(origin.t)
    /\ pending = Build(origin)
    /\ letPat = NoFrag
    /\ expansion = NoMatch
    /\ fired = <<>>
    /\ pc = "dispatch"
    /\ scrut = Unbound
    /\ evals = 0
    /\ armsRun = {}
    /\ locals = NoLocals
    /\ outcome = NoOutcome
    /\ scope = NoLocals

runtime == <<scrut, evals, armsRun, locals, outcome, scope>>

Rule1 ==
    /\ pc = "dispatch" /\ Dispatch(pending) = 1
    /\ expansion' = Template1(pending)
    /\ pending' = <<>>
    /\ fired' = Append(fired, 1)
    /\ pc' = "expanded"
    /\ UNCHANGED <<origin, env, letPat, runtime>>

Rule2 ==
    /\ pc = "dispatch" /\ Dispatch(pending) = 2 /\ Len(fired) < MaxDepth
    /\ pending' = Template2(pending)
    /\ fired' = Append(fired, 2)
    /\ UNCHANGED <<origin, env, letPat, expansion, pc, runtime>>

Rule3 ==
    /\ pc = "dispatch" /\ Dispatch(pending) = 3 /\ Len(fired) < MaxDepth
    /\ pending' = Template3(pending)
    /\ fired' = Append(fired, 3)
    /\ UNCHANGED <<origin, env, letPat, expansion, pc, runtime>>

Rule4 ==
    /\ pc = "dispatch" /\ Dispatch(pending) = 4 /\ Len(fired) < MaxDepth
    /\ pending' = Template4(pending)
    /\ fired' = Append(fired, 4)
    /\ UNCHANGED <<origin, env, letPat, expansion, pc, runtime>>

Rule5 ==
    /\ pc = "dispatch" /\ Dispatch(pending) = 5 /\ Len(fired) < MaxDepth
    /\ letPat' = LetPattern(pending)
    /\ pending' = Template5(pending)
    /\ fired' = Append(fired, 5)
    /\ UNCHANGED <<origin, env, expansion, pc, runtime>>

Rule6 ==
    /\ pc = "dispatch" /\ Dispatch(pending) = 6 /\ Len(fired) < MaxDepth
    /\ letPat' = LetPattern(pending)
    /\ pending' = Template6(pending)
    /\ fired' = Append(fired, 6)
    /\ UNCHANGED <<origin, env, expansion, pc, runtime>>

\* No arm matches: the build fails.
NoRule ==
    /\ pc = "dispatch" /\ Dispatch(pending) = 0
    /\ pc' = "rejected"
    /\ UNCHANGED <<origin, env, pending, letPat, expansion, fired, runtime>>

\* `match $target`: the scrutinee is evaluated.
EvalTarget ==
    /\ pc = "expanded"
    /\ scrut' = env
    /\ evals' = evals + 1
    /\ pc' = "scrutinee"
    /\ UNCHANGED <<origin, env, pending, letPat, expansion, fired,
                   armsRun, locals, outcome, scope>>

AfterArm(o) ==
    IF o.kind = "value" /\ letPat # NoFrag THEN "let" ELSE "done"

\* `$p => $res`
MatchArm ==
    /\ pc = "scrutinee" /\ PatMatches(expansion.pat, scrut)
    /\ locals' = Bind(expansion.pat, scrut)
    /\ outcome' = EvalExpr(expansion.res, locals')
    /\ evals' = evals + ArgEvals(expansion.res)
    /\ armsRun' = armsRun \cup {"res"}
    /\ pc' = AfterArm(outcome')
    /\ UNCHANGED <<origin, env, pending, letPat, expansion, fired, scrut, scope>>

\* `_ => $else`
WildArm ==
    /\ pc = "scrutinee" /\ ~PatMatches(expansion.pat, scrut)
    /\ outcome' = EvalExpr(expansion.else, NoLocals)
    /\ evals' = evals + ArgEvals(expansion.else)
    /\ armsRun' = armsRun \cup {"else"}
    /\ pc' = AfterArm(outcome')
    /\ UNCHANGED <<origin, env, pending, letPat, expansion, fired, scrut,
                   locals, scope>>

\* `let $pat = <the match's value>;`
LetBind ==
    /\ pc = "let"
    /\ scope' = Bind(letPat, outcome.v)
    /\ pc' = "done"
    /\ UNCHANGED <<origin, env, pending, letPat, expansion, fired, scrut,
                   evals, armsRun, locals, outcome>>

Next ==
    \/ Rule1 \/ Rule2 \/ Rule3 \/ Rule4 \/ Rule5 \/ Rule6 \/ NoRule
    \/ EvalTarget \/ MatchArm \/ WildArm \/ LetBind

Spec == Init /\ [][Next]_vars

\* The compiler expands every pending invocation and the emitted code runs on.
FairSpec == Spec /\ WF_vars(Next)

(***************************************************************************)
(* Properties.                                                             *)
(***************************************************************************)
Shape == ShapeOf(origin.form)
OT == Src(origin.t)
OP == Src(origin.p)
OR == Src(origin.r)
OF == Src(origin.f)
Expanded == pc \in {"expanded", "scrutinee", "let", "done"}
Hops == Len(fired) - 1
NoDup(seq) == \A i, j \in DOMAIN seq : seq[i] = seq[j] => i = j
Count(seq, x) == Cardinality({i \in DOMAIN seq : seq[i] = x})

\* The match the caller would write by hand for the self-matching forms.
SelfMatch(else) == [target |-> OT, pat |-> OP, res |-> OP, else |-> else]
\* The fallback in force: the caller's, or the default panic.
FallbackInForce == IF origin.f = "" THEN DefaultFallback(OT, OP) ELSE OF

\* C1: an invocation of one of the six shapes of the rule table (R3..R6 with
\* a pattern that is a single token tree) is matched by exactly one arm, the
\* one of its shape, and that is the arm first-match dispatch fires; every
\* invocation the expansion synthesizes is matched by at most one arm; an
\* invocation of none of the six shapes is matched by no arm and is rejected,
\* nothing being expanded.
UniqueResolution ==
    /\ Shape # 0 => MatchSet(Build(origin)) = {Shape}
    /\ Shape = 0 => MatchSet(Build(origin)) = {}
    /\ pc = "dispatch" => Cardinality(MatchSet(pending)) <= 1
    /\ Len(fired) >= 1 => fired[1] = Shape
    /\ Shape = 0 => /\ pc \in {"dispatch", "rejected"}
                    /\ fired = <<>>
                    /\ expansion = NoMatch
    /\ pc = "rejected" => Shape = 0

\* A self-matching invocation with a fallback (R3) was dispatched to arm 3.
UniqueResolutionWitness ==
    Shape = 3 /\ fired = <<3>> /\ pc = "dispatch"

\* C2: when the target's value matches the pattern, the full form
\* invoke(v, p => r; f) yields what the hand-written match yields: r run
\* under the bindings of p.
EquivalenceOnMatch ==
    (Shape = 1 /\ pc = "done" /\ PatMatches(OP, env)) =>
        /\ outcome = HandMatch(env, OP, OR, OF)
        /\ outcome = EvalExpr(OR, Bind(OP, env))
        /\ armsRun = {"res"}

\* invoke(Some(1), Some(n) => n; 0) has yielded 1.
EquivalenceOnMatchWitness ==
    /\ origin = [form |-> "R1", t |-> "opt", p |-> "Some(n)", r |-> "n", f |-> "0"]
    /\ env = SomeV(1)
    /\ pc = "done"
    /\ outcome = Value(IntV(1))

\* C3: when the target's value does not match the pattern, the full form
\* runs the fallback and only the fallback: the result is never run, no name
\* of the pattern is bound, and a fallback that diverges leaves the
\* enclosing function at once.
FallbackTriggering ==
    (Shape = 1 /\ ~PatMatches(OP, env)) =>
        /\ "res" \notin armsRun
        /\ locals = NoLocals /\ scope = NoLocals
        /\ pc = "done" =>
            /\ armsRun = {"else"}
            /\ outcome = EvalExpr(OF, NoLocals)
            /\ origin.f = "return Err(e)" => outcome.kind = "return"

\* invoke(None, Some(n) => n; return Err(e)) has returned from the function.
FallbackTriggeringWitness ==
    /\ origin = [form |-> "R1", t |-> "opt", p |-> "Some(n)", r |-> "n",
                 f |-> "return Err(e)"]
    /\ env = NoneV
    /\ pc = "done"
    /\ outcome.kind = "return"

\* C4: entered through a shape without fallback (R2, R4, R6), a value that
\* does not match the pattern always ends in the panic
\* "Expected <target> to match pattern: <pattern>" with the text of the
\* caller's target and pattern; no value is produced and nothing is bound.
DefaultDiagnostic ==
    (Shape \in {2, 4, 6} /\ ~PatMatches(OP, env)) =>
        /\ outcome.kind \in {"none", "panic"}
        /\ pc # "let" /\ scope = NoLocals
        /\ pc = "done" =>
            /\ outcome.kind = "panic"
            /\ outcome.msg = <<"Expected ", origin.t, " to match pattern: ", origin.p>>

\* invoke(let [a, b] = vec[..]) on a slice of three elements has panicked.
DefaultDiagnosticWitness ==
    /\ Shape = 6 /\ origin.t = "vec[..]" /\ origin.p = "[a, b]"
    /\ Len(env.items) = 3
    /\ pc = "done"
    /\ outcome.msg = <<"Expected ", "vec[..]", " to match pattern: ", "[a, b]">>

BindingFormEquivalence ==
    Shape \in {5, 6} =>
        /\ pc # "rejected"
        /\ Expanded =>
            /\ letPat = OP
            /\ expansion = ExpandExpr(Build([origin EXCEPT
                    !.form = IF Shape = 5 THEN "R3" ELSE "R4"]), 3)
        /\ pc = "done" =>
            LET o == HandMatch(env, OP, OP, FallbackInForce) IN
            scope = IF o.kind = "value" THEN Bind(OP, o.v) ELSE NoLocals
        /\ pc # "done" => scope = NoLocals

\* invoke(let [a, b] = vec[..]) on the slice [1, 2] has bound a = 1, b = 2.
BindingFormEquivalenceWitness ==
    /\ Shape = 6 /\ origin.p = "[a, b]"
    /\ env = ArrV(<<1, 2>>)
    /\ pc = "done"
    /\ scope["a"] = IntV(1) /\ scope["b"] = IntV(2)

DelegationInv ==
    /\ NoDup(fired)
    /\ pc = "dispatch" => Count(fired, 1) = 0
    /\ Expanded => /\ Count(fired, 1) = 1
                   /\ fired[Len(fired)] = 1
                   /\ expansion # NoMatch
                   /\ (letPat # NoFrag) <=> (Shape \in {5, 6})
    /\ Shape \in 1..6 => pc # "rejected"

\* C7: from any of R2..R6 the expansion ends, fires no arm twice, and fires
\* arm 1 exactly once, as its last step: one match is emitted (inside one
\* let statement for R5 and R6).
DelegationSound ==
    /\ []DelegationInv
    /\ (Shape \in 2..6) ~> Expanded

\* invoke(let p = v) has been expanded through R6, R4, R2, R1.
DelegationSoundWitness ==
    Shape = 6 /\ fired = <<6, 4, 2, 1>> /\ pc = "expanded"

\* C8: in every shape, and whether the value matches or not, the expanded
\* code evaluates the target exactly once; the default panic, which holds
\* the target's text, evaluates it no further.
SingleEvaluation ==
    /\ evals <= 1
    /\ pc \in {"dispatch", "expanded", "rejected"} => evals = 0
    /\ pc \in {"scrutinee", "let", "done"} => evals = 1

\* invoke(opt, Some(n) => n) on None has panicked, the target evaluated once.
SingleEvaluationWitness ==
    /\ Shape = 2 /\ env = NoneV
    /\ pc = "done" /\ outcome.kind = "panic"
    /\ evals = 1

\* C9 as stated: arm 1 is applied after at most two delegation hops.
AtMostTwoHops ==
    Expanded => Hops <= 2

HopsOf(shape) == <<0, 1, 1, 2, 2, 3>>[shape]

\* C9, amended: arm 1 is applied after at most three delegation hops: none
\* for R1, one for R2 and R3, two for R4 and R5, three for R6.
AtMostThreeHops ==
    Expanded => Hops = HopsOf(Shape) /\ Hops <= 3

\* invoke(let p = v) has reached arm 1 after three hops.
AtMostThreeHopsWitness ==
    Shape = 6 /\ Expanded /\ Hops = 3 /\ pc = "scrutinee"

\* R4 by way of R3: the default fallback is synthesized first, then R3
\* synthesizes the result.
ViaR3(t, p) ==
    Template1(Template3(<<t, Punct(","), p, Punct(";"), DefaultFallback(t, p)>>))

\* R4 by way of R2: the result is synthesized first, then R2 synthesizes the
\* default fallback.
ViaR2(t, p) ==
    Template1(Template2(Template4(<<t, Punct(","), p>>)))

\* C10: for invoke(v, p) the two routes give the same match, and it is the
\* match the expansion emits: on the caller's target, with the arm p => p
\* and a wildcard arm that panics with the default diagnostic.
RoutesAgree ==
    (Shape = 4 /\ Expanded) =>
        /\ ViaR2(OT, OP) = ViaR3(OT, OP)
        /\ expansion = ViaR3(OT, OP)
        /\ Dispatch(<<OT, Punct(","), OP, Punct(";"), DefaultFallback(OT, OP)>>) = 3
        /\ expansion.target = OT /\ expansion.pat = OP /\ expansion.res = OP
        /\ expansion.else.k = "panic"
        /\ FormatMsg(expansion.else.args) =
              <<"Expected ", origin.t, " to match pattern: ", origin.p>>

\* invoke(opt, w) has been expanded through R4, R2, R1.
RoutesAgreeWitness ==
    Shape = 4 /\ origin.p = "w" /\ fired = <<4, 2, 1>> /\ pc = "expanded"

====
